---- MODULE Spec2Model ----
(***************************************************************************)
(* Bulk product-import pipeline of productos_microservice:                 *)
(*   POST /importar-csv   (app/routes/productos_bp.py)                     *)
(*   procesar_mensaje     (app/workers/sqs_worker.py)                      *)
(*   ImportJob            (app/models/import_job.py)                       *)
(*   S3Service/SQSService (app/services)                                   *)
(* The job store, the blob store, the queue and the product table are the  *)
(* shared state; one HTTP request and NW worker invocations interleave at  *)
(* their commits and external calls.                                       *)
(***************************************************************************)
EXTENDS Integers, Sequences, FiniteSets, TLC

VARIABLES
    USE_AWS,    \* AWSConfig.USE_AWS, fixed when the process starts
    jobs,       \* table import_jobs: sequence of rows, index = job id
    blobs,      \* S3 bucket: sequence of uploaded contents, index = s3 key
    cola,       \* SQS queue: sequence of messages, index = message id
    prods,      \* table productos: set of stored codigo_sku
    req,        \* the POST /importar-csv request being served, or the last one
    wk,         \* wk[w]: the call of procesar_mensaje that worker w is running
    bff,        \* the batch upload that producto-inventario-web is validating
    rw          \* rw[w]: the main loop of worker process w and its shutdown flag

vars == <<USE_AWS, jobs, blobs, cola, prods, req, wk, bff, rw>>

----------------------------------------------------------------------------
(* Bounds *)

MaxJobs == 1        \* asynchronous submits accepted in one behaviour
MaxExternos == 1    \* messages put on the queue by something else than the route
NW == 1             \* worker processes consuming the queue
MaxFilas == 3       \* data rows of the files offered to the row pass
MaxFilasLargas == 9 \* data rows of the files offered to the worker's pass

Workers == 1..NW

(* Worker processes when they compete for the queue: one more *)
Competidores == 1..(NW + 1)

(* Program constants *)

UMBRAL_ASINCRONO == 100

(* The number of error entries the worker's test expects a job to keep *)
MaxErroresGuardados == 100

NULL == "NULL"

Min(a, b) == IF a < b THEN a ELSE b

Max(a, b) == IF a > b THEN a ELSE b

----------------------------------------------------------------------------
(* Uploads.  A file is its name kind, its header kind, its data rows and   *)
(* the number of empty elements that a split on '\n' leaves at the end     *)
(* (1 when the text ends with a newline).  A data row carries its SKU and  *)
(* whether validar_producto_csv accepts it.                                *)

Fila(s, v) == [sku |-> s, ok |-> v]

Archivo(n, c, f, t) == [nombre |-> n, cab |-> c, filas |-> f, finales |-> t]

FilasGrandes(n) == [i \in 1..n |-> Fila(i, TRUE)]

(* Files offered to the whole pipeline: two rows of which the second      *)
(* repeats the SKU of the first, a header without rows, an empty file.     *)
UploadsChicos ==
    { Archivo("csv", "ok", <<Fila(1, TRUE), Fila(1, TRUE)>>, 1),
      Archivo("csv", "ok", <<>>, 1),
      Archivo("csv", "ninguna", <<>>, 0) }

(* Files offered to the row pass: every sequence of one to MaxFilas rows   *)
(* over two SKUs, each row valid or invalid on its own.                    *)
Skus == {1, 2}

FilasChicas == {Fila(s, v) : s \in Skus, v \in BOOLEAN}

UploadsFilas ==
    { Archivo("csv", "ok", f, 1) :
          f \in UNION {[1..n -> FilasChicas] : n \in 1..MaxFilas} }

(* Files offered to the worker's pass: n rows with n different SKUs *)
UploadsLargos == { Archivo("csv", "ok", FilasGrandes(n), 1) : n \in 1..MaxFilasLargas }

(* Files offered to the route alone: around the threshold, with and        *)
(* without a final newline, with valid and invalid rows, and the files     *)
(* the route or the structural validation rejects.                         *)
UploadsRuta ==
    { Archivo("csv", "ok", FilasGrandes(n), t) :
          n \in {UMBRAL_ASINCRONO - 1, UMBRAL_ASINCRONO, UMBRAL_ASINCRONO + 1},
          t \in {0, 1} }
    \cup { Archivo("csv", "ok", [i \in 1..UMBRAL_ASINCRONO |-> Fila(i, i % 2 = 0)], 0),
           Archivo("csv", "ok", [i \in 1..(UMBRAL_ASINCRONO - 1) |-> Fila(i, i % 2 = 0)], 1),
           Archivo("csv", "ok", <<Fila(1, TRUE)>>, 1),
           Archivo("csv", "ok", <<Fila(1, FALSE)>>, 0),
           Archivo("csv", "ok", <<>>, 1),
           Archivo("csv", "sin_categoria", <<Fila(2, TRUE)>>, 0),
           Archivo("csv", "ninguna", <<>>, 0),
           Archivo("txt", "ok", <<Fila(1, TRUE)>>, 0) }

(* contenido = archivo.stream.read().decode('utf-8'): the text as the      *)
(* sequence of elements that split('\n') yields.                           *)
Texto(u) ==
    (IF u.cab = "ninguna" THEN <<>> ELSE <<"cab">>)
    \o [i \in 1..Len(u.filas) |-> "fila"]
    \o [i \in 1..u.finales |-> "blanca"]

RECURSIVE QuitarFinales(_)
QuitarFinales(l) ==
    IF l # <<>> /\ l[Len(l)] = "blanca"
    THEN QuitarFinales(SubSeq(l, 1, Len(l) - 1))
    ELSE l

RECURSIVE QuitarIniciales(_)
QuitarIniciales(l) ==
    IF l # <<>> /\ l[1] = "blanca" THEN QuitarIniciales(Tail(l)) ELSE l

(* str.strip() on the whole text *)
Strip(l) == QuitarIniciales(QuitarFinales(l))

(* len(texto.split('\n')): the empty text splits into one empty element *)
LenSplit(l) == IF l = <<>> THEN 1 ELSE Len(l)

(* productos_bp.py:346-347 *)
ContarFilas(u) == LenSplit(Strip(Texto(u))) - 1

(* Variant: a threshold that the row count must exceed *)
UsarAsincrono_estricto(num_filas, forzar_asincrono) ==
    num_filas > UMBRAL_ASINCRONO \/ forzar_asincrono

(* productos_bp.py:351 *)
UsarAsincrono(num_filas, forzar_asincrono) ==
    num_filas >= UMBRAL_ASINCRONO \/ forzar_asincrono

(* Variant: the route does not look at USE_AWS *)
AsincronoNoDisponible_nunca(usar_asincrono, use_aws) == FALSE

(* productos_bp.py:354 *)
AsincronoNoDisponible(usar_asincrono, use_aws) == usar_asincrono /\ ~use_aws

----------------------------------------------------------------------------
(* ImportJob (app/models/import_job.py).  progreso is kept in hundredths   *)
(* of a percent; the two timestamps are kept as "is set".                  *)

Terminales == {"COMPLETADO", "FALLIDO", "CANCELADO"}

es_terminal(job) == job.estado \in Terminales

(* Column detalles_errores: NULL, or the JSON object with the stored       *)
(* entries (their number) and the total count.                             *)
SinDetalles == [nulo |-> TRUE, errores |-> 0, total_errores |-> 0]

(* the row the route constructs at productos_bp.py:403-414, with the       *)
(* column defaults of import_job.py:26-49                                  *)
ImportJob(nombre_archivo, s3_key, total_filas) ==
    [ estado               |-> "PENDIENTE",
      s3_key               |-> s3_key,
      total_filas          |-> total_filas,
      filas_procesadas     |-> 0,
      exitosos             |-> 0,
      fallidos             |-> 0,
      progreso             |-> 0,
      mensaje_error        |-> NULL,
      detalles_errores     |-> SinDetalles,
      sqs_message_id       |-> 0,
      fecha_inicio_proceso |-> FALSE,
      fecha_finalizacion   |-> FALSE ]

marcar_como_procesando(job) ==
    [job EXCEPT !.estado = "PROCESANDO", !.fecha_inicio_proceso = TRUE]

(* Parameters that marcar_como_completado declares besides self, and the   *)
(* keywords the worker passes at sqs_worker.py:134-138.  A Python call     *)
(* with a keyword the callee does not declare raises TypeError before the  *)
(* body runs.                                                              *)
ParametrosCompletado == {"mensaje"}

KeywordsWorkerCompletado == {"exitosos", "fallidos", "errores"}

LlamadaAceptada(parametros, keywords) == keywords \subseteq parametros

marcar_como_completado(job) ==
    [job EXCEPT !.estado = "COMPLETADO", !.progreso = 10000,
                !.fecha_finalizacion = TRUE]

(* Variant: the failure is recorded without the status *)
marcar_como_fallido_sin_estado(job, error_mensaje) ==
    [job EXCEPT !.mensaje_error = error_mensaje, !.fecha_finalizacion = TRUE]

marcar_como_fallido(job, error_mensaje) ==
    [job EXCEPT !.estado = "FALLIDO", !.mensaje_error = error_mensaje,
                !.fecha_finalizacion = TRUE]

----------------------------------------------------------------------------
(* CSVProductoService (app/services/csv_service.py), the synchronous pass. *)

(* leer_y_validar_csv: the structural error of a file, "" when it has none *)
ErrorEstructural(u) ==
    IF u.cab = "ninguna" THEN "CSV_VACIO"
    ELSE IF u.cab # "ok" THEN "COLUMNAS_FALTANTES"
    ELSE IF u.filas = <<>> THEN "CSV_SIN_DATOS"
    ELSE ""

(* The table as iteration i of the loop of importar_productos_csv finds   *)
(* it (lines 306-391): every earlier row that passed validation either    *)
(* added its SKU to the session or found it there.                         *)
TablaEnFila(filas, P, i) ==
    P \cup {filas[k].sku : k \in {j \in 1..(i - 1) : filas[j].ok}}

(* Variant: after an invalid row no later row is added *)
FilaExitosa_aborta(filas, P, i) ==
    /\ filas[i].ok /\ filas[i].sku \notin TablaEnFila(filas, P, i)
    /\ \A j \in 1..(i - 1) : filas[j].ok

(* Variant: a row is added without looking its SKU up *)
FilaExitosa_sin_consulta(filas, P, i) == filas[i].ok

(* Iteration i adds a product: the row passes validar_producto_csv and its *)
(* SKU is not in the table (lines 319-327).                                *)
FilaExitosa(filas, P, i) ==
    filas[i].ok /\ filas[i].sku \notin TablaEnFila(filas, P, i)

(* Variant: the SKU check counts nothing *)
CodigoFila_sin_duplicado(filas, P, i) == IF ~filas[i].ok THEN "INVALIDA" ELSE ""

(* The error code with which iteration i ends, "" when it adds a product: *)
(* the ValueError of validar_producto_csv (lines 377-382; one code stands  *)
(* for PRECIO_INVALIDO and the other validation codes) or SKU_DUPLICADO    *)
(* (lines 319-327).                                                        *)
CodigoFila(filas, P, i) ==
    IF ~filas[i].ok THEN "INVALIDA"
    ELSE IF filas[i].sku \in TablaEnFila(filas, P, i) THEN "SKU_DUPLICADO"
    ELSE ""

(* The result of the whole loop, and the table it leaves when it commits:  *)
(* exitosos counts the iterations that reach line 358, fallidos those that *)
(* take the continue of line 327 or an except, each of which appends one   *)
(* entry to detalles_errores.                                              *)
importar_productos_csv(u, P) ==
    LET n == Len(u.filas)
        exitosas == {i \in 1..n : FilaExitosa(u.filas, P, i)}
        fallidas == {i \in 1..n : CodigoFila(u.filas, P, i) # ""}
    IN
    [prods       |-> P \cup {u.filas[i].sku : i \in exitosas},
     exitosos    |-> Cardinality(exitosas),
     fallidos    |-> Cardinality(fallidas),
     detalles_errores |->
         SelectSeq([i \in 1..n |-> [fila |-> i, codigo |-> CodigoFila(u.filas, P, i)]],
                   LAMBDA e : e.codigo # ""),
     total_filas |-> n]

----------------------------------------------------------------------------
(* POST /importar-csv (productos_bp.py:288-472).                           *)

Respuesta(codigo, error) == [codigo |-> codigo, error |-> error]

SinRespuesta == Respuesta(0, "")

ReqLibre(u, forzar, ruta, resp, job) ==
    [pc |-> "libre", u |-> u, forzar |-> forzar, ruta |-> ruta,
     resp |-> resp, job |-> job, key |-> 0, msg |-> 0]

SinArchivo == Archivo("", "ninguna", <<>>, 0)

(* Lines 314-400: checks, routing, the whole synchronous import, or the    *)
(* upload of the file to S3 (falla: S3Service.subir_csv raises).           *)
Importar(u, forzar, falla) ==
    /\ req.pc = "libre"
    /\ LET num_filas == ContarFilas(u)
           usar_asincrono == UsarAsincrono(num_filas, forzar)
       IN
       IF u.nombre # "csv"
       THEN /\ ~falla
            /\ req' = ReqLibre(u, forzar, "ninguna", Respuesta(400, "FORMATO_INVALIDO"), 0)
            /\ UNCHANGED <<rw, bff, USE_AWS, jobs, blobs, cola, prods, wk>>
       ELSE IF AsincronoNoDisponible(usar_asincrono, USE_AWS)
       THEN /\ ~falla
            /\ req' = ReqLibre(u, forzar, "asincrono", Respuesta(503, "AWS_NO_DISPONIBLE"), 0)
            /\ UNCHANGED <<rw, bff, USE_AWS, jobs, blobs, cola, prods, wk>>
       ELSE IF ~usar_asincrono
       THEN /\ ~falla
            /\ IF ErrorEstructural(u) # ""
               THEN /\ req' = ReqLibre(u, forzar, "sincrono",
                                       Respuesta(400, ErrorEstructural(u)), 0)
                    /\ UNCHANGED prods
               ELSE LET r == importar_productos_csv(u, prods) IN
                    /\ prods' = IF r.exitosos > 0 THEN r.prods ELSE prods
                    /\ req' = ReqLibre(u, forzar, "sincrono",
                            Respuesta(IF r.exitosos = 0 /\ r.fallidos > 0
                                      THEN 400 ELSE 200, ""), 0)
            /\ UNCHANGED <<rw, bff, USE_AWS, jobs, blobs, cola, wk>>
       ELSE /\ Len(blobs) < MaxJobs
            /\ IF falla
               THEN /\ req' = ReqLibre(u, forzar, "asincrono",
                                       Respuesta(500, "ERROR_INTERNO"), 0)
                    /\ UNCHANGED <<rw, bff, USE_AWS, jobs, blobs, cola, prods, wk>>
               ELSE /\ blobs' = Append(blobs, u)
                    /\ req' = [pc |-> "crear", u |-> u, forzar |-> forzar,
                               ruta |-> "asincrono", resp |-> SinRespuesta,
                               job |-> 0, key |-> Len(blobs) + 1, msg |-> 0]
                    /\ UNCHANGED <<rw, bff, USE_AWS, jobs, cola, prods, wk>>

(* Lines 402-416: the job row is added and committed in PENDIENTE. *)
CrearJob ==
    /\ req.pc = "crear"
    /\ jobs' = Append(jobs, ImportJob(req.u.nombre, req.key, ContarFilas(req.u)))
    /\ req' = [req EXCEPT !.pc = "publicar", !.job = Len(jobs) + 1]
    /\ UNCHANGED <<rw, bff, USE_AWS, blobs, cola, prods, wk>>

(* Variant: a body that names the next job id *)
Mensaje_otro_job(tipo, job_id, s3_key) ==
    [cuerpo |-> [tipo |-> tipo, job_id |-> job_id + 1, s3_key |-> s3_key],
     estado |-> "visible"]

(* The body SQSService.enviar_job_a_cola builds (sqs_service.py:44-52) *)
Mensaje(tipo, job_id, s3_key) ==
    [cuerpo |-> [tipo |-> tipo, job_id |-> job_id, s3_key |-> s3_key],
     estado |-> "visible"]

(* Variant: a failed publish that leaves the job as it was *)
Publicar_sin_marcar(falla) ==
    /\ req.pc = "publicar"
    /\ IF falla
       THEN /\ req' = ReqLibre(req.u, req.forzar, "asincrono",
                               Respuesta(500, "ERROR_SQS"), req.job)
            /\ UNCHANGED <<rw, bff, USE_AWS, jobs, blobs, cola, prods, wk>>
       ELSE /\ cola' = Append(cola, Mensaje("objeto", req.job, req.key))
            /\ req' = [req EXCEPT !.pc = "encolar", !.msg = Len(cola) + 1]
            /\ UNCHANGED <<rw, bff, USE_AWS, jobs, blobs, prods, wk>>

(* Lines 418-444: publish the message; when enviar_job_a_cola raises the   *)
(* job is written FALLIDO and the request answers 500.                     *)
Publicar(falla) ==
    /\ req.pc = "publicar"
    /\ IF falla
       THEN /\ jobs' = [jobs EXCEPT ![req.job] =
                          [@ EXCEPT !.estado = "FALLIDO",
                                    !.mensaje_error = "Error enviando a cola"]]
            /\ req' = ReqLibre(req.u, req.forzar, "asincrono",
                               Respuesta(500, "ERROR_SQS"), req.job)
            /\ UNCHANGED <<rw, bff, USE_AWS, blobs, cola, prods, wk>>
       ELSE /\ cola' = Append(cola, Mensaje("objeto", req.job, req.key))
            /\ req' = [req EXCEPT !.pc = "encolar", !.msg = Len(cola) + 1]
            /\ UNCHANGED <<rw, bff, USE_AWS, jobs, blobs, prods, wk>>

(* Lines 428-431 and 446-459: the job is written EN_COLA with the message  *)
(* id and the request answers 202.                                         *)
Encolar ==
    /\ req.pc = "encolar"
    /\ jobs' = [jobs EXCEPT ![req.job] =
                  [@ EXCEPT !.sqs_message_id = req.msg, !.estado = "EN_COLA"]]
    /\ req' = ReqLibre(req.u, req.forzar, "asincrono", Respuesta(202, ""), req.job)
    /\ UNCHANGED <<rw, bff, USE_AWS, blobs, cola, prods, wk>>

----------------------------------------------------------------------------
(* The queue.  A message is visible, leased to a receiver (en_vuelo) or    *)
(* deleted.                                                                *)

JobDesconocido == MaxJobs + 1

ClaveDesconocida == MaxJobs + 1

(* Bodies that reach the queue from elsewhere than the route: not JSON, a  *)
(* JSON object without job_id, one without s3_key, one that names a job    *)
(* that is not in the table, one that names a key that is not in the       *)
(* bucket.  job_id / s3_key 0 stand for an absent or empty field.          *)
CuerposExternos ==
    { [tipo |-> "json_invalido", job_id |-> 0, s3_key |-> 0],
      [tipo |-> "objeto", job_id |-> 0, s3_key |-> 1],
      [tipo |-> "objeto", job_id |-> 1, s3_key |-> 0],
      [tipo |-> "objeto", job_id |-> JobDesconocido, s3_key |-> 1],
      [tipo |-> "objeto", job_id |-> 1, s3_key |-> ClaveDesconocida] }

NumExternos == Cardinality({m \in 1..Len(cola) : cola[m].cuerpo \in CuerposExternos})

MensajeExterno(c) ==
    /\ NumExternos < MaxExternos
    /\ cola' = Append(cola, [cuerpo |-> c, estado |-> "visible"])
    /\ UNCHANGED <<rw, bff, USE_AWS, jobs, blobs, prods, req, wk>>

(* The visibility lease of a received message runs out. *)
Expirar(m) ==
    /\ cola[m].estado = "en_vuelo"
    /\ cola' = [cola EXCEPT ![m].estado = "visible"]
    /\ UNCHANGED <<rw, bff, USE_AWS, jobs, blobs, prods, req, wk>>

(* Variant: a delete that leaves the message where it is *)
eliminar_mensaje_sin_efecto(q, m) == q

(* What sqs.delete_message leaves of the queue *)
eliminar_mensaje(q, m) == [q EXCEPT ![m].estado = "eliminado"]

----------------------------------------------------------------------------
(* procesar_mensaje (app/workers/sqs_worker.py:41-175).                    *)
(* wk[w] holds the position of the call, the locals of the CSV pass and a  *)
(* record of what the call did so far: the job it found, its calls of      *)
(* eliminar_mensaje and descargar_csv, its commits on import_jobs, the     *)
(* exception that reached the handler, the result of the CSV pass and the  *)
(* value returned.                                                         *)

WkLibre ==
    [pc |-> "libre", msg |-> 0, fila |-> 0, ex |-> 0, fa |-> 0, total |-> 0,
     csv |-> "", job |-> 0, elim |-> 0, descargas |-> 0, escrituras |-> 0,
     exc |-> "", ret |-> "", ext |-> 0, visibilidad |-> 0]

Existe(J, id) == id \in 1..Len(J)

ErrorWorker(e) == "Error en worker: " \o e

(* The job the handler finds when it parses the body again (lines 163-168) *)
JobDelHandler(J, cuerpo) ==
    IF cuerpo.tipo = "objeto" /\ cuerpo.job_id # 0 /\ Existe(J, cuerpo.job_id)
    THEN cuerpo.job_id ELSE 0

(* Variant: a handler that does not write the job *)
ManejarExcepcion_sin_marcar(J, cuerpo, e) == J

(* Lines 158-175: the handler marks the job FALLIDO when it finds it; it   *)
(* never deletes the message.                                              *)
ManejarExcepcion(J, cuerpo, e) ==
    IF JobDelHandler(J, cuerpo) # 0
    THEN [J EXCEPT ![cuerpo.job_id] = marcar_como_fallido(@, ErrorWorker(e))]
    ELSE J

(* The call of worker w returns valor (lines 70, 80, 97, 156). *)
Retorna(w, r, valor) ==
    wk' = [wk EXCEPT ![w] = [r EXCEPT !.pc = "retorna", !.ret = valor]]

(* The call of worker w ends in the handler with exception e and returns   *)
(* False (line 175).                                                       *)
PorExcepcion(w, r, e, J, cuerpo) ==
    Retorna(w, [r EXCEPT !.exc = e,
                         !.escrituras = @ + (IF JobDelHandler(J, cuerpo) # 0 THEN 1 ELSE 0)],
            "False")

Sigue(w, r) == wk' = [wk EXCEPT ![w] = r]

(* A consumer receives a visible message, which leases it                  *)
(* (sqs_service.py:128-135), and calls procesar_mensaje with it.           *)
Recibir(w, m) ==
    /\ wk[w].pc = "libre"
    /\ cola[m].estado = "visible"
    /\ cola' = [cola EXCEPT ![m].estado = "en_vuelo"]
    /\ wk' = [wk EXCEPT ![w] = [WkLibre EXCEPT !.pc = "inicio", !.msg = m]]
    /\ UNCHANGED <<rw, bff, USE_AWS, jobs, blobs, prods, req>>

(* The caller takes the value returned and is free for the next message   *)
(* (lines 249-257).                                                        *)
Retornar(w) ==
    /\ wk[w].pc = "retorna"
    /\ wk' = [wk EXCEPT ![w] = WkLibre]
    /\ UNCHANGED <<rw, bff, USE_AWS, jobs, blobs, cola, prods, req>>

(* Lines 57-85: parse, reject a body without job_id or s3_key, look the    *)
(* job up, mark it PROCESANDO.  falla: eliminar_mensaje raises.            *)
Iniciar(w, falla) ==
    /\ wk[w].pc = "inicio"
    /\ LET r == wk[w]
           c == cola[r.msg].cuerpo
       IN
       IF c.tipo # "objeto"
       THEN /\ ~falla
            /\ jobs' = ManejarExcepcion(jobs, c, "JSONDecodeError")
            /\ PorExcepcion(w, r, "JSONDecodeError", jobs, c)
            /\ UNCHANGED cola
       ELSE IF c.job_id = 0 \/ c.s3_key = 0 \/ ~Existe(jobs, c.job_id)
       THEN LET r1 == [r EXCEPT !.elim = @ + 1] IN
            IF falla
            THEN /\ jobs' = ManejarExcepcion(jobs, c, "eliminar_mensaje")
                 /\ PorExcepcion(w, r1, "eliminar_mensaje", jobs, c)
                 /\ UNCHANGED cola
            ELSE /\ cola' = eliminar_mensaje(cola, r.msg)
                 /\ Retorna(w, r1, "False")
                 /\ UNCHANGED jobs
       ELSE /\ ~falla
            /\ jobs' = [jobs EXCEPT ![c.job_id] = marcar_como_procesando(@)]
            /\ Sigue(w, [r EXCEPT !.pc = "descargar", !.job = c.job_id,
                                  !.escrituras = @ + 1])
            /\ UNCHANGED cola
    /\ UNCHANGED <<rw, bff, USE_AWS, blobs, prods, req>>

(* Lines 87-97.  S3Service.descargar_csv (s3_service.py:84-129) returns    *)
(* the text or raises: on NoSuchKey, or on any other error (falla).  An    *)
(* empty text marks the job FALLIDO and deletes the message (fallaCola:    *)
(* that eliminar_mensaje raises).                                          *)
Descargar(w, falla, fallaCola) ==
    /\ wk[w].pc = "descargar"
    /\ LET r == [wk[w] EXCEPT !.descargas = @ + 1]
           c == cola[r.msg].cuerpo
       IN
       IF falla \/ ~(c.s3_key \in 1..Len(blobs))
       THEN /\ ~fallaCola
            /\ jobs' = ManejarExcepcion(jobs, c, "descargar_csv")
            /\ PorExcepcion(w, r, "descargar_csv", jobs, c)
            /\ UNCHANGED cola
       ELSE IF Texto(blobs[c.s3_key]) = <<>>
       THEN LET J1 == [jobs EXCEPT ![r.job] =
                          marcar_como_fallido(@, "No se pudo descargar el archivo CSV desde S3")]
                r1 == [r EXCEPT !.escrituras = @ + 1, !.elim = @ + 1]
            IN
            IF fallaCola
            THEN /\ jobs' = ManejarExcepcion(J1, c, "eliminar_mensaje")
                 /\ PorExcepcion(w, r1, "eliminar_mensaje", J1, c)
                 /\ UNCHANGED cola
            ELSE /\ jobs' = J1
                 /\ cola' = eliminar_mensaje(cola, r.msg)
                 /\ Retorna(w, r1, "False")
       ELSE /\ ~fallaCola
            /\ Sigue(w, [r EXCEPT !.pc = "procesar",
                                  !.total = Len(blobs[c.s3_key].filas)])
            /\ UNCHANGED <<jobs, cola>>
    /\ UNCHANGED <<rw, bff, USE_AWS, blobs, prods, req>>

(* round(fila_actual / total_filas * 100, 2), in hundredths of a percent *)
Progreso(fila_actual, total_filas) ==
    IF total_filas > 0
    THEN (2 * fila_actual * 10000 + total_filas) \div (2 * total_filas)
    ELSE 0

(* Lines 100-107: the progress callback writes progreso, exitosos and      *)
(* fallidos of the job and commits.                                        *)
actualizar_progreso(job, fila_actual, total_filas, exitosos, fallidos) ==
    [job EXCEPT !.progreso = Progreso(fila_actual, total_filas),
                !.exitosos = exitosos, !.fallidos = fallidos]

(* Variant: the lease is extended every fourth row *)
ExtiendeVisibilidad_cada_cuatro(fila_actual, total_filas) == fila_actual % 4 = 0

(* Line 115: fila_actual % max(1, total_filas // 4) == 0 *)
ExtiendeVisibilidad(fila_actual, total_filas) ==
    fila_actual % Max(1, total_filas \div 4) = 0

(* The timeout the callback passes at line 117 *)
VisibilidadExtendida == 300

(* The largest timeout cambiar_visibilidad_mensaje lets through *)
MaxVisibilidad == 43200

(* sqs_service.py:213: timeout = min(max(0, timeout), 43200), the value    *)
(* change_message_visibility is called with                                *)
cambiar_visibilidad_mensaje(timeout) == Min(Max(0, timeout), MaxVisibilidad)

(* Lines 122-130: one row of procesar_csv_desde_contenido with the call of *)
(* the callback for it.  A file with a structural error yields a result    *)
(* whose estado is not 'completado'; falla: the pass raises.  The callback *)
(* also extends the lease of the message on the rows of line 115; wk[w]    *)
(* counts these calls and keeps the timeout of the last one.               *)
ProcesarFila(w, falla) ==
    /\ wk[w].pc = "procesar"
    /\ LET r == wk[w]
           c == cola[r.msg].cuerpo
           u == blobs[c.s3_key]
       IN
       IF falla
       THEN /\ jobs' = ManejarExcepcion(jobs, c, "procesar_csv")
            /\ PorExcepcion(w, r, "procesar_csv", jobs, c)
            /\ UNCHANGED prods
       ELSE IF ErrorEstructural(u) # ""
       THEN /\ Sigue(w, [r EXCEPT !.pc = "finalizar", !.csv = "fallido"])
            /\ UNCHANGED <<jobs, prods>>
       ELSE LET f == u.filas[r.fila + 1]
                bien == f.ok /\ f.sku \notin prods
                ex == IF bien THEN r.ex + 1 ELSE r.ex
                fa == IF bien THEN r.fa ELSE r.fa + 1
                fin == r.fila + 1 = r.total
                extiende == ExtiendeVisibilidad(r.fila + 1, r.total)
            IN
            /\ prods' = IF bien THEN prods \cup {f.sku} ELSE prods
            /\ jobs' = [jobs EXCEPT ![r.job] =
                          actualizar_progreso(@, r.fila + 1, r.total, ex, fa)]
            /\ Sigue(w, [r EXCEPT !.fila = @ + 1, !.ex = ex, !.fa = fa,
                                  !.escrituras = @ + 1,
                                  !.ext = IF extiende THEN @ + 1 ELSE @,
                                  !.visibilidad =
                                      IF extiende
                                      THEN cambiar_visibilidad_mensaje(VisibilidadExtendida)
                                      ELSE @,
                                  !.pc = IF fin THEN "finalizar" ELSE "procesar",
                                  !.csv = IF fin THEN "completado" ELSE ""])
    /\ UNCHANGED <<rw, bff, USE_AWS, blobs, cola, req>>

(* Lines 132-156: write the final state of the job, commit, delete the     *)
(* message, return True.  falla: eliminar_mensaje raises.                  *)
Finalizar(w, falla) ==
    /\ wk[w].pc = "finalizar"
    /\ LET r == wk[w]
           c == cola[r.msg].cuerpo
       IN
       IF r.csv = "completado"
          /\ ~LlamadaAceptada(ParametrosCompletado, KeywordsWorkerCompletado)
       THEN /\ ~falla
            /\ jobs' = ManejarExcepcion(jobs, c, "TypeError")
            /\ PorExcepcion(w, r, "TypeError", jobs, c)
            /\ UNCHANGED cola
       ELSE LET J1 == [jobs EXCEPT ![r.job] =
                          IF r.csv = "completado"
                          THEN marcar_como_completado(@)
                          ELSE marcar_como_fallido(@, "Error desconocido durante el procesamiento")]
                r1 == [r EXCEPT !.escrituras = @ + 1, !.elim = @ + 1]
            IN
            IF falla
            THEN /\ jobs' = ManejarExcepcion(J1, c, "eliminar_mensaje")
                 /\ PorExcepcion(w, r1, "eliminar_mensaje", J1, c)
                 /\ UNCHANGED cola
            ELSE /\ jobs' = J1
                 /\ cola' = eliminar_mensaje(cola, r.msg)
                 /\ Retorna(w, r1, "True")
    /\ UNCHANGED <<rw, bff, USE_AWS, blobs, prods, req>>

----------------------------------------------------------------------------
(* procesar_producto_batch of producto-inventario-web                      *)
(* (src/services/productos.py:83-212): the validation pass that the web    *)
(* backend runs over an upload before it forwards the file.                *)

(* validate_row on row i: 'SKU duplicado en archivo' when an earlier row   *)
(* put the SKU in skus_seen (every row does, valid or not); the other      *)
(* errors (missing field, price, date) when the row is invalid on its own. *)
SkuVisto(filas, i) == \E j \in 1..(i - 1) : filas[j].sku = filas[i].sku

ErroresFila(filas, i) ==
    (IF ~filas[i].ok THEN {"invalida"} ELSE {})
    \cup (IF SkuVisto(filas, i) THEN {"SKU duplicado en archivo"} ELSE {})

(* The summary of lines 186-212 *)
procesar_producto_batch(u) ==
    LET n == Len(u.filas) IN
    [total      |-> n,
     successful |-> Cardinality({i \in 1..n : ErroresFila(u.filas, i) = {}}),
     errors     |-> SelectSeq([i \in 1..n |-> [fila |-> i, errors |-> ErroresFila(u.filas, i)]],
                              LAMBDA e : e.errors # {}),
     failed     |-> Len(SelectSeq([i \in 1..n |-> [fila |-> i, errors |-> ErroresFila(u.filas, i)]],
                                  LAMBDA e : e.errors # {}))]

BffLibre ==
    [pc |-> "libre", u |-> SinArchivo, resumen |-> procesar_producto_batch(SinArchivo)]

(* The web backend validates an upload *)
ProcesarBatch(u) ==
    /\ bff.pc = "libre"
    /\ bff' = [pc |-> "validado", u |-> u, resumen |-> procesar_producto_batch(u)]
    /\ UNCHANGED <<rw, USE_AWS, jobs, blobs, cola, prods, req, wk>>

(* and answers with the summary *)
ResponderBatch ==
    /\ bff.pc = "validado"
    /\ bff' = BffLibre
    /\ UNCHANGED <<rw, USE_AWS, jobs, blobs, cola, prods, req, wk>>

----------------------------------------------------------------------------
(* run_worker (app/workers/sqs_worker.py:178-275).  rw[w].pc is the       *)
(* position of process w in the main loop: at the test of the while        *)
(* (line 223), in the call of recibir_mensajes (226-230), in the sleep of  *)
(* the generic handler (263-266), or past the loop (268-275).              *)

RwInicial == [pc |-> "while", shutdown_requested |-> FALSE]

(* Line 105 declares recibir_mensajes(max_mensajes=1, wait_time=20);       *)
(* lines 226-230 call it with these keywords.                              *)
ParametrosRecibir == {"max_mensajes", "wait_time"}

KeywordsWorkerRecibir == {"max_messages", "wait_time_seconds", "visibility_timeout"}

(* Variant: a loop that does not read the flag *)
SigueElCiclo_sordo(shutdown) == TRUE

(* Line 223: while not shutdown_requested *)
SigueElCiclo(shutdown) == ~shutdown

(* SIGTERM or SIGINT reaches process w: the handler only sets the flag     *)
(* (lines 34-38).                                                          *)
signal_handler(w) ==
    /\ rw[w].pc # "fuera"
    /\ ~rw[w].shutdown_requested
    /\ rw' = [rw EXCEPT ![w].shutdown_requested = TRUE]
    /\ UNCHANGED <<bff, USE_AWS, jobs, blobs, cola, prods, req, wk>>

(* Line 223: the test of the while, which enters the try or leaves the loop *)
RwWhile(w) ==
    /\ rw[w].pc = "while"
    /\ rw' = [rw EXCEPT ![w].pc = IF SigueElCiclo(rw[w].shutdown_requested)
                                  THEN "recibir" ELSE "fuera"]
    /\ UNCHANGED <<bff, USE_AWS, jobs, blobs, cola, prods, req, wk>>

(* Lines 226-230 and 263-265: the call of recibir_mensajes names keywords  *)
(* the method does not declare, so it raises TypeError before the method   *)
(* runs; except Exception takes it and the loop sleeps.                    *)
RwRecibir(w) ==
    /\ rw[w].pc = "recibir"
    /\ ~LlamadaAceptada(ParametrosRecibir, KeywordsWorkerRecibir)
    /\ rw' = [rw EXCEPT ![w].pc = "sleep"]
    /\ UNCHANGED <<bff, USE_AWS, jobs, blobs, cola, prods, req, wk>>

(* Line 266: time.sleep(10) returns and the loop goes back to its test *)
RwSleep(w) ==
    /\ rw[w].pc = "sleep"
    /\ rw' = [rw EXCEPT ![w].pc = "while"]
    /\ UNCHANGED <<bff, USE_AWS, jobs, blobs, cola, prods, req, wk>>

run_worker(w) ==
    \/ RwWhile(w)
    \/ RwRecibir(w)
    \/ RwSleep(w)

----------------------------------------------------------------------------
(* SQSService.enviar_job_a_cola (app/services/sqs_service.py:19-102) and   *)
(* what sqs.send_message does with its parameters.  In this part a message *)
(* also carries the queue it was sent to, its MessageGroupId, its          *)
(* MessageDeduplicationId and the number of sends the queue accepted for   *)
(* it.  A queue name is written as its parts, so that the suffix can be    *)
(* read.                                                                   *)

MaxEnvios == 3

NombresDeCola ==
    { <<"productos-importacion-queue", ".fifo">>, <<"productos-importacion-queue">> }

JobsEnviados == {1, 2}

ClavesEnviadas == {1, 2}

endswith(nombre, sufijo) == nombre[Len(nombre)] = sufijo

(* A send without MessageDeduplicationId; job ids and keys start at 1 *)
SinIdDeduplicacion == 0

(* Variant: the s3 key as de-duplication id *)
IdDeduplicacion_por_clave(job_id, s3_key) == s3_key

(* Line 82 *)
IdDeduplicacion(job_id, s3_key) == job_id

(* Lines 72-82: QueueUrl and MessageBody always; group and de-duplication  *)
(* id when the configured queue name ends in .fifo.                         *)
send_params(SQS_QUEUE_NAME, job_id, s3_key) ==
    LET es_fifo == endswith(SQS_QUEUE_NAME, ".fifo") IN
    [QueueUrl |-> SQS_QUEUE_NAME,
     MessageBody |-> [tipo |-> "objeto", job_id |-> job_id, s3_key |-> s3_key],
     MessageGroupId |-> IF es_fifo THEN "productos-import" ELSE NULL,
     MessageDeduplicationId |-> IF es_fifo THEN IdDeduplicacion(job_id, s3_key)
                                           ELSE SinIdDeduplicacion]

(* The messages of queue q that a send with parameters p repeats: those    *)
(* the same queue accepted with the same de-duplication id.                *)
Repetidos(q, p) ==
    { m \in 1..Len(q) : /\ q[m].QueueUrl = p.QueueUrl
                        /\ p.MessageDeduplicationId # SinIdDeduplicacion
                        /\ q[m].MessageDeduplicationId = p.MessageDeduplicationId }

(* sqs.send_message (line 85): a FIFO queue accepts a repeated send        *)
(* without adding a message; any other send adds one.                      *)
send_message(q, p) ==
    IF Repetidos(q, p) # {}
    THEN [m \in 1..Len(q) |->
             IF m \in Repetidos(q, p) THEN [q[m] EXCEPT !.envios = @ + 1] ELSE q[m]]
    ELSE Append(q, [cuerpo |-> p.MessageBody, estado |-> "visible",
                    QueueUrl |-> p.QueueUrl,
                    MessageGroupId |-> p.MessageGroupId,
                    MessageDeduplicationId |-> p.MessageDeduplicationId,
                    envios |-> 1])

(* A caller in a process configured with queue name nombre publishes job_id *)
enviar_job_a_cola(nombre, job_id, s3_key) ==
    /\ \A m \in 1..Len(cola) : cola[m].envios < MaxEnvios
    /\ Len(cola) < MaxEnvios
    /\ cola' = send_message(cola, send_params(nombre, job_id, s3_key))
    /\ UNCHANGED <<rw, bff, USE_AWS, jobs, blobs, prods, req, wk>>

(* A consumer receives a visible message and deletes it *)
Consumir(m) ==
    /\ cola[m].estado = "visible"
    /\ cola' = eliminar_mensaje(cola, m)
    /\ UNCHANGED <<rw, bff, USE_AWS, jobs, blobs, prods, req, wk>>

----------------------------------------------------------------------------
(* Specifications *)

Init ==
    /\ USE_AWS \in BOOLEAN
    /\ jobs = <<>>
    /\ blobs = <<>>
    /\ cola = <<>>
    /\ prods = {}
    /\ req = ReqLibre(SinArchivo, FALSE, "ninguna", SinRespuesta, 0)
    /\ wk = [w \in Competidores |-> WkLibre]
    /\ bff = BffLibre
    /\ rw = [w \in Competidores |-> RwInicial]

(* The route, on the files of U; F: whether S3 and SQS may raise *)
Submit(U, F) ==
    \/ \E u \in U, forzar \in BOOLEAN, falla \in F : Importar(u, forzar, falla)
    \/ CrearJob
    \/ \E falla \in F : Publicar(falla)
    \/ Encolar

(* The workers; F: whether S3, SQS and the CSV pass may raise *)
Worker(F) ==
    \/ \E w \in Workers, m \in 1..Len(cola) : Recibir(w, m)
    \/ \E w \in Workers, falla \in F : Iniciar(w, falla)
    \/ \E w \in Workers, falla \in F, fallaCola \in F : Descargar(w, falla, fallaCola)
    \/ \E w \in Workers, falla \in F : ProcesarFila(w, falla)
    \/ \E w \in Workers, falla \in F : Finalizar(w, falla)
    \/ \E w \in Workers : Retornar(w)

Cola ==
    \/ \E c \in CuerposExternos : MensajeExterno(c)
    \/ \E m \in 1..Len(cola) : Expirar(m)

Next == Submit(UploadsChicos, BOOLEAN) \/ Worker(BOOLEAN) \/ Cola

Spec == Init /\ [][Next]_vars

(* The route alone, on files around the threshold *)
NextRuta == Submit(UploadsRuta, BOOLEAN)

SpecRuta == Init /\ [][NextRuta]_vars

(* The two row passes on every small file: synchronous submits to the     *)
(* microservice, and validations by the web backend, one client at a time. *)
NextFilas ==
    \/ \E u \in UploadsFilas : bff.pc = "libre" /\ Importar(u, FALSE, FALSE)
    \/ \E u \in UploadsFilas : ProcesarBatch(u)
    \/ ResponderBatch

SpecFilas == Init /\ [][NextFilas]_vars

(* The pipeline when S3 and SQS answer every call and only the route puts  *)
(* messages on the queue.  A request that was accepted runs to its         *)
(* response, a worker that can take a step takes one, and the lease of a   *)
(* message that stays in flight runs out.                                  *)
NextViva ==
    \/ Submit(UploadsChicos, {FALSE})
    \/ Worker({FALSE})
    \/ \E m \in 1..Len(cola) : Expirar(m)

SpecViva ==
    /\ Init
    /\ [][NextViva]_vars
    /\ WF_vars(CrearJob \/ Publicar(FALSE) \/ Encolar)
    /\ WF_vars(Worker({FALSE}))
    /\ WF_vars(\E m \in 1..Len(cola) : Expirar(m))

(* An operator cancels a job that no worker has started: the status goes *)
(* from PENDIENTE or EN_COLA to CANCELADO and nothing else changes.        *)
Cancelar(j) ==
    /\ j \in 1..Len(jobs)
    /\ jobs[j].estado \in {"PENDIENTE", "EN_COLA"}
    /\ jobs' = [jobs EXCEPT ![j].estado = "CANCELADO"]
    /\ UNCHANGED <<rw, bff, USE_AWS, blobs, cola, prods, req, wk>>

(* The pipeline of SpecViva with an operator who may cancel *)
NextCancelacion ==
    \/ NextViva
    \/ \E j \in 1..MaxJobs : Cancelar(j)

SpecCancelacion == Init /\ [][NextCancelacion]_vars

(* The worker processes as packaged, with the route submitting files and  *)
(* signals arriving at any moment.  Each process that can take a step of   *)
(* its loop takes one: the call of line 226 returns or raises at once and  *)
(* the sleep lasts ten seconds.                                            *)
NextApagado ==
    \/ Submit(UploadsChicos, {FALSE})
    \/ \E w \in Workers : run_worker(w)
    \/ \E w \in Workers : signal_handler(w)

SpecApagado ==
    /\ Init
    /\ [][NextApagado]_vars
    /\ \A w \in Workers : WF_vars(run_worker(w))

(* The transport alone: publishes of any of two jobs on either queue, in  *)
(* any order and any number of times, and consumers that take messages.    *)
NextFifo ==
    \/ \E nombre \in NombresDeCola, job_id \in JobsEnviados, s3_key \in ClavesEnviadas :
          enviar_job_a_cola(nombre, job_id, s3_key)
    \/ \E m \in 1..Len(cola) : Consumir(m)

SpecFifo == Init /\ [][NextFifo]_vars

(* Several worker processes as competing consumers of the queue, when S3  *)
(* and SQS answer every call: each takes any visible message, and a lease  *)
(* may run out while its holder is still at work.                          *)
NextCompetencia ==
    \/ Submit(UploadsChicos, {FALSE})
    \/ \E w \in Competidores, m \in 1..Len(cola) : Recibir(w, m)
    \/ \E w \in Competidores : Iniciar(w, FALSE)
    \/ \E w \in Competidores : Descargar(w, FALSE, FALSE)
    \/ \E w \in Competidores : ProcesarFila(w, FALSE)
    \/ \E w \in Competidores : Finalizar(w, FALSE)
    \/ \E w \in Competidores : Retornar(w)
    \/ \E m \in 1..Len(cola) : Expirar(m)

SpecCompetencia == Init /\ [][NextCompetencia]_vars

(* Forced asynchronous submits of files of one to MaxFilasLargas rows and *)
(* a worker that processes them, when S3 and SQS answer every call.        *)
NextVisibilidad ==
    \/ \E u \in UploadsLargos : Importar(u, TRUE, FALSE)
    \/ CrearJob
    \/ Publicar(FALSE)
    \/ Encolar
    \/ Worker({FALSE})
    \/ \E m \in 1..Len(cola) : Expirar(m)

SpecVisibilidad == Init /\ [][NextVisibilidad]_vars

----------------------------------------------------------------------------
(* Properties.  A property of one call of procesar_mensaje is stated on    *)
(* the step in which the call returns: the step carries what the call      *)
(* found (unprimed) and what it leaves (primed).                           *)

RetornaEn(w) == wk[w].pc # "retorna" /\ wk'[w].pc = "retorna"


(* C1: a job whose status is COMPLETADO, FALLIDO or CANCELADO never        *)
(* changes status again, whatever is submitted, delivered or delivered     *)
(* again afterwards.                                                       *)
C1_TerminalNoCambia ==
    [][\A j \in 1..Len(jobs) :
          es_terminal(jobs[j]) => jobs'[j].estado = jobs[j].estado]_vars

(* C2: when S3 and SQS answer and a worker keeps taking messages, every    *)
(* job accepted on the asynchronous path for a well-formed file eventually *)
(* is COMPLETADO with exitosos + fallidos = total_filas and progreso 100.  *)
C2_IdaYVuelta ==
    \A j \in 1..MaxJobs :
        (/\ Len(jobs) >= j
         /\ jobs[j].estado = "EN_COLA"
         /\ ErrorEstructural(blobs[jobs[j].s3_key]) = "")
        ~> (/\ Len(jobs) >= j
            /\ jobs[j].estado = "COMPLETADO"
            /\ jobs[j].exitosos + jobs[j].fallidos = jobs[j].total_filas
            /\ jobs[j].progreso = 10000)

(* C3: a call that found its job and ends in the exception handler leaves  *)
(* the job FALLIDO with the exception text in mensaje_error, does not      *)
(* touch the queue, so the message is not deleted, and returns False.      *)
C3_ExcepcionTrasJob ==
    [][\A w \in Workers :
          (RetornaEn(w) /\ wk[w].job # 0 /\ wk'[w].exc # "") =>
              /\ jobs'[wk[w].job].estado = "FALLIDO"
              /\ jobs'[wk[w].job].mensaje_error = ErrorWorker(wk'[w].exc)
              /\ cola' = cola
              /\ wk'[w].ret = "False"]_vars

C3_Testigo ==
    \E w \in Workers :
        /\ wk[w].pc = "retorna"
        /\ wk[w].job # 0
        /\ wk[w].exc = "descargar_csv"
        /\ jobs[wk[w].job].estado = "FALLIDO"
        /\ jobs[wk[w].job].mensaje_error = ErrorWorker("descargar_csv")
        /\ cola[wk[w].msg].estado = "en_vuelo"
        /\ wk[w].ret = "False"

EsVeneno(c) == c.tipo # "objeto" \/ c.job_id = 0 \/ c.s3_key = 0

(* C4: a call on a message whose body is not JSON or lacks job_id or       *)
(* s3_key deletes the message, changes no job and returns False (the case *)
(* that the delete itself raises is left aside).                           *)
C4_VenenoEliminado ==
    [][\A w \in Workers :
          (/\ RetornaEn(w)
           /\ EsVeneno(cola[wk[w].msg].cuerpo)
           /\ wk'[w].exc # "eliminar_mensaje") =>
              /\ cola'[wk[w].msg].estado = "eliminado"
              /\ jobs' = jobs
              /\ wk'[w].ret = "False"]_vars

(* C5: a call that ends at the download, because descargar_csv raises or  *)
(* returns an empty text, leaves the job FALLIDO with a mensaje_error and  *)
(* the message deleted (the case that the delete itself raises is left     *)
(* aside).                                                                 *)
C5_DescargaFallidaElimina ==
    [][\A w \in Workers :
          (/\ RetornaEn(w)
           /\ wk[w].pc = "descargar"
           /\ wk'[w].exc # "eliminar_mensaje") =>
              /\ jobs'[wk[w].job].estado = "FALLIDO"
              /\ jobs'[wk[w].job].mensaje_error # NULL
              /\ cola'[wk[w].msg].estado = "eliminado"]_vars

(* C6: a call on a well-formed message whose job_id is not in the table    *)
(* calls eliminar_mensaje once, which deletes the message unless the call  *)
(* raises, changes no row of import_jobs, downloads nothing and returns    *)
(* False.                                                                  *)
C6_JobInexistente ==
    [][\A w \in Workers :
          (/\ RetornaEn(w)
           /\ ~EsVeneno(cola[wk[w].msg].cuerpo)
           /\ wk[w].pc = "inicio"
           /\ ~Existe(jobs, cola[wk[w].msg].cuerpo.job_id)) =>
              /\ wk'[w].elim = 1
              /\ wk'[w].exc = "" => cola'[wk[w].msg].estado = "eliminado"
              /\ jobs' = jobs
              /\ wk'[w].descargas = 0
              /\ wk'[w].ret = "False"]_vars

C6_Testigo ==
    \E w \in Workers :
        /\ wk[w].pc = "retorna"
        /\ ~EsVeneno(cola[wk[w].msg].cuerpo)
        /\ ~Existe(jobs, cola[wk[w].msg].cuerpo.job_id)
        /\ wk[w].elim = 1
        /\ wk[w].exc = ""
        /\ cola[wk[w].msg].estado = "eliminado"
        /\ wk[w].descargas = 0
        /\ wk[w].ret = "False"

(* C7: a call whose CSV pass returned a completed result leaves the job    *)
(* COMPLETADO with the counts of the pass and both timestamps set, deletes *)
(* the message with one call and returns True (the case that the delete    *)
(* itself raises is left aside).                                           *)
C7_PasadaCompleta ==
    [][\A w \in Workers :
          (/\ RetornaEn(w)
           /\ wk[w].pc = "finalizar"
           /\ wk[w].csv = "completado"
           /\ wk'[w].exc # "eliminar_mensaje") =>
              /\ jobs'[wk[w].job].estado = "COMPLETADO"
              /\ jobs'[wk[w].job].exitosos = wk[w].ex
              /\ jobs'[wk[w].job].fallidos = wk[w].fa
              /\ jobs'[wk[w].job].fecha_inicio_proceso
              /\ jobs'[wk[w].job].fecha_finalizacion
              /\ wk'[w].elim = 1
              /\ cola'[wk[w].msg].estado = "eliminado"
              /\ wk'[w].ret = "True"]_vars

(* C8: a call whose CSV pass counted N >= 1 failed rows leaves, in         *)
(* detalles_errores of the job, min(N, 100) entries and a total of N.      *)
C8_ErroresAcotados ==
    [][\A w \in Workers :
          (/\ RetornaEn(w)
           /\ wk[w].pc = "finalizar"
           /\ wk[w].csv = "completado"
           /\ wk[w].fa >= 1
           /\ wk'[w].exc # "eliminar_mensaje") =>
              LET d == jobs'[wk[w].job].detalles_errores IN
              /\ ~d.nulo
              /\ d.errores = Min(wk[w].fa, MaxErroresGuardados)
              /\ d.total_errores = wk[w].fa]_vars

(* C9: a .csv upload takes the asynchronous path exactly when it has at    *)
(* least 100 data rows or forzar_asincrono is set, whatever its rows hold. *)
C9_Enrutamiento ==
    req.u.nombre = "csv" =>
        (req.ruta = "asincrono"
            <=> (Len(req.u.filas) >= UMBRAL_ASINCRONO \/ req.forzar))

C9_Testigo ==
    /\ req.pc = "libre"
    /\ req.resp.codigo = 202
    /\ req.ruta = "asincrono"
    /\ Len(req.u.filas) = UMBRAL_ASINCRONO
    /\ ~req.forzar

(* C10: a submit for which the routing selects the asynchronous path while *)
(* USE_AWS is off answers 503 AWS_NO_DISPONIBLE and changes neither the    *)
(* products, nor the bucket, nor the jobs, nor the queue.                  *)
C10_SinAWS ==
    [][(/\ req.pc = "libre"
        /\ req' # req
        /\ req'.u.nombre = "csv"
        /\ UsarAsincrono(ContarFilas(req'.u), req'.forzar)
        /\ ~USE_AWS) =>
           /\ req'.resp = Respuesta(503, "AWS_NO_DISPONIBLE")
           /\ req'.pc = "libre"
           /\ UNCHANGED <<prods, blobs, jobs, cola>>]_vars

C10_Testigo ==
    /\ ~USE_AWS
    /\ req.pc = "libre"
    /\ req.resp = Respuesta(503, "AWS_NO_DISPONIBLE")
    /\ Len(req.u.filas) >= UMBRAL_ASINCRONO
    /\ ~req.forzar
    /\ prods = {} /\ blobs = <<>> /\ jobs = <<>> /\ cola = <<>>

(* C11: a .csv upload with a header and no data rows is answered 400       *)
(* CSV_SIN_DATOS and no job is created for it, with or without             *)
(* forzar_asincrono (the answers of a disabled or failing backend, 503 and *)
(* 500, are left aside).                                                   *)
C11_SoloCabecera ==
    (/\ req.pc = "libre"
     /\ req.u.nombre = "csv"
     /\ req.u.cab = "ok"
     /\ req.u.filas = <<>>
     /\ req.resp.codigo \notin {0, 500, 503}) =>
        /\ req.resp = Respuesta(400, "CSV_SIN_DATOS")
        /\ req.job = 0

(* C12: a .csv upload whose header lacks a required column is answered 400 *)
(* COLUMNAS_FALTANTES and no job is created for it, on either route (the   *)
(* answers of a disabled or failing backend, 503 and 500, are left aside). *)
C12_ColumnasFaltantes ==
    (/\ req.pc = "libre"
     /\ req.u.nombre = "csv"
     /\ req.u.cab = "sin_categoria"
     /\ req.resp.codigo \notin {0, 500, 503}) =>
        /\ req.resp = Respuesta(400, "COLUMNAS_FALTANTES")
        /\ req.job = 0

(* The step in which the route answers a synchronous submit of a file that *)
(* passes the structural validation.                                       *)
PasadaSincrona ==
    /\ req.pc = "libre"
    /\ req' # req
    /\ req'.ruta = "sincrono"
    /\ ErrorEstructural(req'.u) = ""

EntradasDeFila(errores, i) ==
    Cardinality({k \in 1..Len(errores) : errores[k].fila = i})

(* C13: after the row pass over a structurally valid file, exitosos +      *)
(* fallidos = total, every row is counted by exactly one of the two, and   *)
(* the error records are as many as the failed rows: in                    *)
(* importar_productos_csv and in procesar_producto_batch.                  *)
C13_TotalCuadra ==
    [][/\ PasadaSincrona =>
            LET r == importar_productos_csv(req'.u, prods) IN
            /\ r.exitosos + r.fallidos = r.total_filas
            /\ Len(r.detalles_errores) = r.fallidos
            /\ \A i \in 1..r.total_filas :
                  EntradasDeFila(r.detalles_errores, i)
                      = IF FilaExitosa(req'.u.filas, prods, i) THEN 0 ELSE 1
       /\ bff'.pc = "validado" =>
            LET b == bff'.resumen IN
            /\ b.successful + b.failed = b.total
            /\ Len(b.errors) = b.failed
            /\ \A i \in 1..b.total : EntradasDeFila(b.errors, i) <= 1]_vars

C13_Testigo ==
    /\ req.ruta = "sincrono"
    /\ req.resp.codigo = 200
    /\ Len(req.u.filas) = MaxFilas
    /\ \E i \in 1..MaxFilas : ~req.u.filas[i].ok
    /\ bff.pc = "validado"
    /\ bff.resumen.successful >= 1
    /\ bff.resumen.failed >= 1
    /\ bff.resumen.total = MaxFilas

(* C14: in importar_productos_csv, a row whose SKU an earlier row of the   *)
(* file carries is marked failed, whatever its other fields and whatever   *)
(* became of the earlier row; a row whose SKU is new to the file and to    *)
(* the table does not end with SKU_DUPLICADO.                              *)
C14_DuplicadoEnArchivo ==
    [][PasadaSincrona =>
          \A i \in 1..Len(req'.u.filas) :
              LET codigo == CodigoFila(req'.u.filas, prods, i) IN
              /\ SkuVisto(req'.u.filas, i) => codigo # ""
              /\ (~SkuVisto(req'.u.filas, i) /\ req'.u.filas[i].sku \notin prods)
                     => codigo # "SKU_DUPLICADO"]_vars

(* C15: an invalid row does not stop the pass: every row that is valid and *)
(* whose SKU is new to the table and to the file is counted in exitosos    *)
(* and its product is in the table after the submit, which answers 200.    *)
C15_FilaInvalidaNoAborta ==
    [][PasadaSincrona =>
          LET filas == req'.u.filas
              r == importar_productos_csv(req'.u, prods)
              buenas == {i \in 1..Len(filas) :
                            /\ filas[i].ok
                            /\ filas[i].sku \notin prods
                            /\ ~SkuVisto(filas, i)}
          IN
          /\ r.exitosos >= Cardinality(buenas)
          /\ \A i \in buenas : filas[i].sku \in prods'
          /\ buenas # {} => req'.resp.codigo = 200]_vars

C15_Testigo ==
    /\ req.pc = "libre"
    /\ req.ruta = "sincrono"
    /\ req.resp.codigo = 200
    /\ Len(req.u.filas) = 3
    /\ ~req.u.filas[1].ok
    /\ req.u.filas[2].ok /\ req.u.filas[3].ok
    /\ req.u.filas[2].sku # req.u.filas[3].sku
    /\ prods = Skus

(* C16: in every state every job has filas_procesadas = exitosos +         *)
(* fallidos <= total_filas and progreso = 100 * filas_procesadas /         *)
(* total_filas (0 when total_filas = 0).                                   *)
C16_ProgresoCoherente ==
    \A j \in 1..Len(jobs) :
        /\ jobs[j].filas_procesadas = jobs[j].exitosos + jobs[j].fallidos
        /\ jobs[j].filas_procesadas <= jobs[j].total_filas
        /\ jobs[j].progreso = Progreso(jobs[j].filas_procesadas, jobs[j].total_filas)

(* C17: when a worker starts on the message of a job that is CANCELADO,    *)
(* it does not move the job to PROCESANDO: the job stays as it is, the     *)
(* message is deleted and the call returns without downloading anything.   *)
C17_CanceladoSeAborta ==
    [][\A w \in Workers :
          LET c == cola[wk[w].msg].cuerpo IN
          (/\ wk[w].pc = "inicio"
           /\ wk'[w] # wk[w]
           /\ c.tipo = "objeto"
           /\ Existe(jobs, c.job_id)
           /\ jobs[c.job_id].estado = "CANCELADO") =>
              /\ jobs' = jobs
              /\ cola'[wk[w].msg].estado = "eliminado"
              /\ wk'[w].pc = "retorna"]_vars

C19_UnSoloMensajePorJob ==
    \A m \in 1..Len(cola) :
        endswith(cola[m].QueueUrl, ".fifo") =>
            /\ cola[m].MessageGroupId = "productos-import"
            /\ cola[m].MessageDeduplicationId = cola[m].cuerpo.job_id
            /\ \A n \in 1..Len(cola) :
                  (cola[n].QueueUrl = cola[m].QueueUrl
                   /\ cola[n].cuerpo.job_id = cola[m].cuerpo.job_id) => n = m

C19_Testigo ==
    \E m \in 1..Len(cola) :
        /\ endswith(cola[m].QueueUrl, ".fifo")
        /\ cola[m].envios = 2
        /\ cola[m].estado = "visible"

(* C20: the route's write of EN_COLA comes before every write of a worker  *)
(* on the same job: a job that is PROCESANDO, COMPLETADO or FALLIDO is     *)
(* never written back to EN_COLA.                                          *)
C20_EnColaAntesDelWorker ==
    [][\A j \in 1..Len(jobs) :
          jobs[j].estado \in {"PROCESANDO", "COMPLETADO", "FALLIDO"} =>
              jobs'[j].estado # "EN_COLA"]_vars

(* C21: at any moment at most one worker process is inside the processing  *)
(* of a given job, between marking it PROCESANDO and its return.           *)
C21_UnSoloWorkerPorJob ==
    \A j \in 1..Len(jobs) :
        Cardinality({w \in Competidores :
                        /\ wk[w].job = j
                        /\ wk[w].pc \in {"descargar", "procesar", "finalizar"}}) <= 1

(* C22: in every state a job that is PROCESANDO has fecha_inicio_proceso   *)
(* set and a job that is COMPLETADO or FALLIDO has fecha_finalizacion set. *)
C22_FechasSiguenEstado ==
    \A j \in 1..Len(jobs) :
        /\ jobs[j].estado = "PROCESANDO" => jobs[j].fecha_inicio_proceso
        /\ jobs[j].estado \in {"COMPLETADO", "FALLIDO"} => jobs[j].fecha_finalizacion

(* C23: in every state a job has a mensaje_error exactly when it is        *)
(* FALLIDO.                                                                *)
C23_ErrorSoloEnFallido ==
    \A j \in 1..Len(jobs) :
        jobs[j].mensaje_error # NULL <=> jobs[j].estado = "FALLIDO"

(* C24: the step in which the publish of an asynchronous submit fails      *)
(* writes the job FALLIDO with a mensaje_error, puts nothing on the queue  *)
(* and answers 5xx; and a job that carries that mensaje_error is never     *)
(* EN_COLA, has no message id and has no message of the route on the queue. *)
C24_FalloAlPublicar ==
    /\ [][(req.pc = "publicar" /\ req'.pc = "libre") =>
             /\ jobs'[req.job].estado = "FALLIDO"
             /\ jobs'[req.job].mensaje_error # NULL
             /\ cola' = cola
             /\ req'.resp.codigo >= 500]_vars
    /\ [](\A j \in 1..Len(jobs) :
             jobs[j].mensaje_error = "Error enviando a cola" =>
                 /\ jobs[j].estado # "EN_COLA"
                 /\ jobs[j].sqs_message_id = 0
                 /\ \A m \in 1..Len(cola) :
                       cola[m].cuerpo # Mensaje("objeto", j, jobs[j].s3_key).cuerpo)

C24_Testigo ==
    /\ req.pc = "libre"
    /\ req.resp = Respuesta(500, "ERROR_SQS")
    /\ jobs[req.job].estado = "FALLIDO"
    /\ jobs[req.job].mensaje_error = "Error enviando a cola"
    /\ \A m \in 1..Len(cola) : cola[m].cuerpo.job_id # req.job

(* C25: the status code of a response follows the route taken: 200 for a   *)
(* synchronous run on a file without structural error, whatever rows       *)
(* failed; 400 for a structural error found on the synchronous route; 202  *)
(* with a job for an accepted asynchronous run; 503 exactly when the       *)
(* asynchronous route is needed and AWS is off.                            *)
C25_CodigoPorRuta ==
    (req.pc = "libre" /\ req.resp.codigo # 0 /\ req.u.nombre = "csv") =>
        LET usar_asincrono == UsarAsincrono(ContarFilas(req.u), req.forzar) IN
        /\ (req.ruta = "sincrono" /\ ErrorEstructural(req.u) = "") => req.resp.codigo = 200
        /\ (req.ruta = "sincrono" /\ ErrorEstructural(req.u) # "") => req.resp.codigo = 400
        /\ (req.ruta = "asincrono" /\ req.resp.codigo < 500) =>
               (req.resp.codigo = 202 /\ req.job # 0)
        /\ req.resp.codigo = 503 <=> (usar_asincrono /\ ~USE_AWS)

C28_ContadoresMonotonos ==
    [][\A j \in 1..Len(jobs) :
          LET a == jobs[j]
              b == jobs'[j]
          IN
          /\ b.filas_procesadas >= a.filas_procesadas
          /\ b.exitosos >= a.exitosos
          /\ b.fallidos >= a.fallidos
          /\ b.progreso >= a.progreso
          /\ (<<b.filas_procesadas, b.exitosos, b.fallidos, b.progreso>>
                  # <<a.filas_procesadas, a.exitosos, a.fallidos, a.progreso>>)
                 => a.estado = "PROCESANDO"]_vars

C30_OrdenDelEnvio ==
    /\ \A j \in 1..Len(jobs) : jobs[j].s3_key \in 1..Len(blobs)
    /\ \A m \in 1..Len(cola) :
          cola[m].cuerpo \notin CuerposExternos =>
              /\ cola[m].cuerpo.tipo = "objeto"
              /\ Existe(jobs, cola[m].cuerpo.job_id)
              /\ cola[m].cuerpo.s3_key = jobs[cola[m].cuerpo.job_id].s3_key
    /\ \A j \in 1..Len(jobs) :
          jobs[j].estado = "EN_COLA" =>
              \E m \in 1..Len(cola) :
                  cola[m].cuerpo = [tipo |-> "objeto", job_id |-> j, s3_key |-> jobs[j].s3_key]

C30_Testigo ==
    \E j \in 1..Len(jobs), m \in 1..Len(cola) :
        /\ jobs[j].estado = "EN_COLA"
        /\ req.pc = "libre" /\ req.resp.codigo = 202 /\ req.job = j
        /\ cola[m].cuerpo = [tipo |-> "objeto", job_id |-> j, s3_key |-> jobs[j].s3_key]
        /\ cola[m].estado = "visible"
        /\ jobs[j].sqs_message_id = m

====
